---- MODULE Spec2Model ----
(***************************************************************************)
(* Model of ctox/subst.py: the substitution functions for tox.ini files.   *)
(*                                                                         *)
(* A Python string is a sequence of atoms.  An atom is either one of the   *)
(* characters the code inspects ("{", "}", ":", ",", "[", "]", "-", " ",   *)
(* "\n") or a word: a non-empty run of characters none of which is one of  *)
(* those.  The words in use (env, posargs, name, options, config, echo,    *)
(* passed, no, py, django, doc, other, andy, foo, bar, sec, key, USER, J,   *)
(* toxinidir, /tmp, the letters u v w x z and the digits) are such that     *)
(* none is a prefix of another, so two sequences are equal exactly when the *)
(* strings they stand for are equal.  A list of strings is a sequence of    *)
(* such sequences.                                                          *)
(***************************************************************************)
EXTENDS Integers, Sequences, FiniteSets, TLC

VARIABLES
    fn,         \* the function of subst.py being called
    s,          \* the string argument; in replace_braces the local s
    env,        \* the env argument: [name, attrs, config, options]
    environ,    \* os.environ
    arguments,  \* the argument of positional_args
    passes,     \* number of completed iterations of replace_braces' loop
    arg,        \* the string argument as the caller passed it
    pc,         \* "call" | "loop" | "returned" | "raised"
    result,     \* the returned value (unset: << >>)
    error       \* the raised exception [kind, text] (none: kind "")

vars == <<fn, s, env, environ, arguments, passes, arg, pc, result, error>>

\* a loop bound one short of DEPTH
DEPTH_short == 5 - 1

DEPTH == 5

----------------------------------------------------------------------------
(* Built-ins of Python used by the module.                                 *)

\* whitespace as seen by str.strip() and by \s
IsSpace(c) == c \in {" ", "\n"}

Slice(str, a, b) == IF a > b THEN << >> ELSE SubSeq(str, a, b)

RECURSIVE lstrip(_)
lstrip(str) ==
    IF str # << >> /\ IsSpace(Head(str)) THEN lstrip(Tail(str)) ELSE str

RECURSIVE rstrip(_)
rstrip(str) ==
    IF str # << >> /\ IsSpace(str[Len(str)])
    THEN rstrip(SubSeq(str, 1, Len(str) - 1)) ELSE str

strip(str) == lstrip(rstrip(str))

\* index of the first occurrence of atom c in str at or after i, else 0
RECURSIVE find(_, _, _)
find(str, c, i) ==
    IF i > Len(str) THEN 0
    ELSE IF str[i] = c THEN i ELSE find(str, c, i + 1)

\* str.split(sep) for a one-character sep
RECURSIVE split(_, _)
split(str, sep) ==
    LET c == find(str, sep, 1) IN
    IF c = 0 THEN <<str>>
    ELSE <<Slice(str, 1, c - 1)>> \o split(Slice(str, c + 1, Len(str)), sep)

\* first index of the run of whitespace that ends just before index c
RECURSIVE SpaceRunStart(_, _)
SpaceRunStart(str, c) ==
    IF c > 1 /\ IsSpace(str[c - 1]) THEN SpaceRunStart(str, c - 1) ELSE c

\* last index of the run of whitespace that starts just after index c
RECURSIVE SpaceRunEnd(_, _)
SpaceRunEnd(str, c) ==
    IF c < Len(str) /\ IsSpace(str[c + 1]) THEN SpaceRunEnd(str, c + 1) ELSE c

\* re.split(r"\s*SEP\s*", str): the leftmost match holds the first SEP and
\* the whitespace around it
RECURSIVE re_split(_, _)
re_split(str, sep) ==
    LET c == find(str, sep, 1) IN
    IF c = 0 THEN <<str>>
    ELSE <<Slice(str, 1, SpaceRunStart(str, c) - 1)>>
         \o re_split(Slice(str, SpaceRunEnd(str, c) + 1, Len(str)), sep)

\* sep.join(list)
RECURSIVE join(_, _)
join(list, sep) ==
    IF list = << >> THEN << >>
    ELSE IF Len(list) = 1 THEN list[1]
    ELSE list[1] \o sep \o join(Tail(list), sep)

\* sum(lists, [])
RECURSIVE sum(_)
sum(lists) == IF lists = << >> THEN << >> ELSE Head(lists) \o sum(Tail(lists))

\* index of the "}" that ends a match of {[^{}]*} whose "{" is before j, else 0
RECURSIVE CurlyClose(_, _)
CurlyClose(str, j) ==
    IF j > Len(str) THEN 0
    ELSE IF str[j] = "}" THEN j
    ELSE IF str[j] = "{" THEN 0
    ELSE CurlyClose(str, j + 1)

\* end of the match of {[^{}]*} at index i, else 0
CurlyEnd(str, i) ==
    IF i <= Len(str) /\ str[i] = "{" THEN CurlyClose(str, i + 1) ELSE 0

\* re.finditer(r"{[^{}]*}", str) from index i: the matches, left to right
RECURSIVE finditer_curly(_, _)
finditer_curly(str, i) ==
    IF i > Len(str) THEN << >>
    ELSE LET e == CurlyEnd(str, i) IN
         IF e # 0
         THEN <<[start |-> i, end |-> e, group |-> SubSeq(str, i, e)]>>
              \o finditer_curly(str, e + 1)
         ELSE finditer_curly(str, i + 1)

----------------------------------------------------------------------------
(* expand_curlys, bash_expand, parse_envlist                               *)

\* _replace_curly with the two loops of the comprehension exchanged
_replace_curly_swapped(envlist, match) ==
    LET alts == re_split(Slice(match.group, 2, Len(match.group) - 1), ",")
        n    == Len(alts)
    IN  [k \in 1..(Len(envlist) * n) |->
            LET e == envlist[((k - 1) \div n) + 1]
                m == alts[((k - 1) % n) + 1]
            IN  Slice(e, 1, match.start - 1) \o m
                \o Slice(e, match.end + 1, Len(e))]

\* [e[:start] + m + e[end:] for m in re.split(...) for e in envlist]
_replace_curly(envlist, match) ==
    LET alts == re_split(Slice(match.group, 2, Len(match.group) - 1), ",")
        n    == Len(envlist)
    IN  [k \in 1..(Len(alts) * n) |->
            LET m == alts[((k - 1) \div n) + 1]
                e == envlist[((k - 1) % n) + 1]
            IN  Slice(e, 1, match.start - 1) \o m
                \o Slice(e, match.end + 1, Len(e))]

\* reduce(_replace_curly, reversed(curleys), envlist)
RECURSIVE reduce_reversed(_, _)
reduce_reversed(curleys, envlist) ==
    IF curleys = << >> THEN envlist
    ELSE reduce_reversed(SubSeq(curleys, 1, Len(curleys) - 1),
                         _replace_curly(envlist, curleys[Len(curleys)]))

expand_curlys(str) == reduce_reversed(finditer_curly(str, 1), <<str>>)

\* does \s*,\s* match at index i: the index of its comma, else 0
RECURSIVE CommaAt(_, _)
CommaAt(str, i) ==
    IF i > Len(str) THEN 0
    ELSE IF str[i] = "," THEN i
    ELSE IF IsSpace(str[i]) THEN CommaAt(str, i + 1)
    ELSE 0

\* the loop of _split_out_of_braces over re.finditer(r"{[^{}]*}|\s*,\s*", s),
\* scanning at index i with the local prev (1-based)
RECURSIVE split_loop(_, _, _)
split_loop(str, i, prev) ==
    IF i > Len(str)
    THEN LET part == Slice(str, prev, Len(str)) IN
         IF part # << >> THEN <<part>> ELSE << >>
    ELSE IF CurlyEnd(str, i) # 0
    THEN split_loop(str, CurlyEnd(str, i) + 1, prev)
    ELSE IF CommaAt(str, i) # 0
    THEN LET mend == SpaceRunEnd(str, CommaAt(str, i))
             part == Slice(str, prev, i - 1)
         IN  (IF part # << >> THEN <<part>> ELSE << >>)
             \o split_loop(str, mend + 1, mend + 1)
    ELSE split_loop(str, i + 1, prev)

_split_out_of_braces(str) == split_loop(str, 1, 1)

bash_expand(str) ==
    LET parts == _split_out_of_braces(str) IN
    sum([t \in 1..Len(parts) |-> expand_curlys(parts[t])])

parse_envlist(str) == bash_expand(str)

----------------------------------------------------------------------------
(* expand_factor_conditions, positional_args                               *)

Range(list) == {list[k] : k \in 1..Len(list)}

\* expand_factor_conditions without the guard on the word env
expand_factor_conditions_noguard(str, e_) ==
    LET e == re_split(str, ":") IN
    IF Len(e) = 2
    THEN LET env_labels == Range(split(e_.name, "-"))
             labels     == Range(bash_expand(e[1]))
         IN  IF labels \cap env_labels # {} THEN e[2] ELSE << >>
    ELSE str

expand_factor_conditions(str, e_) ==
    LET e == re_split(str, ":") IN
    IF Len(e) = 2 /\ e[1] # <<"env">>
    THEN LET env_labels == Range(split(e_.name, "-"))
             labels     == Range(bash_expand(e[1]))
         IN  IF labels \cap env_labels # {} THEN e[2] ELSE << >>
    ELSE str

startswith_dash(a) == a # << >> /\ a[1] = "-"

\* the else branch of positional_args: yield until a token starts with "-"
RECURSIVE positional_loop(_)
positional_loop(args) ==
    IF args = << >> THEN << >>
    ELSE IF startswith_dash(Head(args)) THEN << >>
    ELSE <<Head(args)>> \o positional_loop(Tail(args))

\* positional_args without the test of a leading "--"
positional_args_noseparator(args) == positional_loop(args)

positional_args(args) ==
    IF args # << >> /\ args[1] = <<"-", "-">>
    THEN Tail(args)
    ELSE positional_loop(args)

----------------------------------------------------------------------------
(* replace_braces and its strategies.  A call yields [kind, val]: kind     *)
(* "ok" with the returned string, kind "object" with a returned value that *)
(* is not a string, or the name of the raised exception with its argument. *)

Ok(v) == [kind |-> "ok", val |-> v]
Raise(k, v) == [kind |-> k, val |-> v]

\* getattr(env, name): name, the string attributes, and the attributes
\* options and config, which are not strings
getattr(e_, name) ==
    IF name = <<"name">> THEN Ok(e_.name)
    ELSE IF name \in DOMAIN e_.attrs THEN Ok(e_.attrs[name])
    ELSE IF name \in {<<"options">>, <<"config">>} THEN Raise("object", name)
    ELSE Raise("AttributeError", name)

\* _replace_envvar reading env:KEY with os.environ.get(KEY, "")
_replace_envvar_get(str, e_) ==
    LET e == split(str, ":") IN
    IF Len(e) > 3 \/ Len(e) = 1 \/ e[1] # <<"env">>
    THEN Raise("TypeError", << >>)
    ELSE IF Len(e) = 2
    THEN Ok(IF e[2] \in DOMAIN environ THEN environ[e[2]] ELSE << >>)
    ELSE Ok(IF e[2] \in DOMAIN environ THEN environ[e[2]] ELSE e[3])

_replace_envvar(str, e_) ==
    LET e == split(str, ":") IN
    IF Len(e) > 3 \/ Len(e) = 1 \/ e[1] # <<"env">>
    THEN Raise("TypeError", << >>)
    ELSE IF Len(e) = 2
    THEN IF e[2] \in DOMAIN environ THEN Ok(environ[e[2]])
         ELSE Raise("KeyError", e[2])
    ELSE Ok(IF e[2] \in DOMAIN environ THEN environ[e[2]] ELSE e[3])

\* re.match(r"\[(.*?)\](.*)", str): "." does not match a newline
config_match(str) ==
    LET close == find(str, "]", 2)
        nl    == find(str, "\n", 2)
    IN  /\ str # << >>
        /\ str[1] = "["
        /\ close # 0
        /\ (nl = 0 \/ nl > close)

_replace_config(str, e_) ==
    IF config_match(str)
    THEN LET close   == find(str, "]", 2)
             nl      == find(str, "\n", close + 1)
             section == Slice(str, 2, close - 1)
             option  == Slice(str, close + 1,
                              IF nl = 0 THEN Len(str) ELSE nl - 1)
         IN  IF <<section, option>> \in DOMAIN e_.config
             THEN LET expanded == e_.config[<<section, option>>]
                      lines    == split(expanded, "\n")
                  IN  Ok(join([k \in 1..Len(lines) |->
                                  expand_factor_conditions(lines[k], e_)],
                              <<"\n">>))
             ELSE Raise("NoOptionError", option)
    ELSE Raise("TypeError", << >>)

_replace_posargs(str, e_) ==
    LET e == re_split(str, ":") IN
    IF e[1] = <<"posargs">>
    THEN LET joined == join(positional_args(e_.options), <<" ">>) IN
         IF joined # << >> THEN Ok(joined)
         ELSE IF Len(e) >= 2 THEN Ok(e[2])
         ELSE Raise("IndexError", << >>)
    ELSE Raise("TypeError", << >>)

\* _replace_match leaving a group no strategy understands as it is
_replace_match_lenient(m, e_) ==
    LET str == strip(Slice(m.group, 2, Len(m.group) - 1))
        a   == getattr(e_, str)
        r1  == _replace_envvar(str, e_)
        r2  == _replace_config(str, e_)
        r3  == _replace_posargs(str, e_)
    IN  IF a.kind # "AttributeError" THEN a
        ELSE IF r1.kind # "TypeError" THEN r1
        ELSE IF r2.kind # "TypeError" THEN r2
        ELSE IF r3.kind # "TypeError" THEN r3
        ELSE Ok(m.group)

\* m is a match of {[^{}]*}
_replace_match(m, e_) ==
    LET str == strip(Slice(m.group, 2, Len(m.group) - 1))
        a   == getattr(e_, str)
        r1  == _replace_envvar(str, e_)
        r2  == _replace_config(str, e_)
        r3  == _replace_posargs(str, e_)
    IN  IF a.kind # "AttributeError" THEN a
        ELSE IF r1.kind # "TypeError" THEN r1
        ELSE IF r2.kind # "TypeError" THEN r2
        ELSE IF r3.kind # "TypeError" THEN r3
        ELSE Raise("NotImplementedError", str)

\* re.sub(r"{[^{}]*}", replace, str) from index i, acc being the output so
\* far: the matches are replaced left to right and the first exception ends
\* the scan
RECURSIVE re_sub(_, _, _, _)
re_sub(str, i, e_, acc) ==
    IF i > Len(str) THEN Ok(acc)
    ELSE IF CurlyEnd(str, i) = 0
    THEN re_sub(str, i + 1, e_, Append(acc, str[i]))
    ELSE LET c == CurlyEnd(str, i)
             r == _replace_match([start |-> i, end |-> c,
                                  group |-> SubSeq(str, i, c)], e_)
         IN  IF r.kind = "object" THEN Raise("TypeError", r.val)
             ELSE IF r.kind # "ok" THEN r
             ELSE re_sub(str, c + 1, e_, acc \o r.val)

NoError == [kind |-> "", val |-> << >>]

\* an iteration that scans the argument instead of the previous output
Pass_fromarg ==
    /\ fn = "replace_braces"
    /\ pc = "loop"
    /\ passes < DEPTH
    /\ LET r == re_sub(arg, 1, env, << >>) IN
       IF r.kind = "ok"
       THEN /\ s' = r.val
            /\ passes' = passes + 1
            /\ UNCHANGED <<pc, error>>
       ELSE /\ pc' = "raised"
            /\ error' = r
            /\ UNCHANGED <<s, passes>>
    /\ UNCHANGED <<fn, env, environ, arguments, arg, result>>

\* one iteration of "for _ in range(DEPTH)" of replace_braces
Pass ==
    /\ fn = "replace_braces"
    /\ pc = "loop"
    /\ passes < DEPTH
    /\ LET r == re_sub(s, 1, env, << >>) IN
       IF r.kind = "ok"
       THEN /\ s' = r.val
            /\ passes' = passes + 1
            /\ UNCHANGED <<pc, error>>
       ELSE /\ pc' = "raised"
            /\ error' = r
            /\ UNCHANGED <<s, passes>>
    /\ UNCHANGED <<fn, env, environ, arguments, arg, result>>

\* a return that is possible one iteration early
Return_early ==
    /\ fn = "replace_braces"
    /\ pc = "loop"
    /\ passes >= DEPTH - 1
    /\ pc' = "returned"
    /\ result' = s
    /\ UNCHANGED <<fn, s, env, environ, arguments, passes, arg, error>>

\* "return s" of replace_braces
Return ==
    /\ fn = "replace_braces"
    /\ pc = "loop"
    /\ passes = DEPTH
    /\ pc' = "returned"
    /\ result' = s
    /\ UNCHANGED <<fn, s, env, environ, arguments, passes, arg, error>>

----------------------------------------------------------------------------
(* The calls of replace_braces that are explored.                          *)

MaxNest == 6
MaxItems == 2

Group(inner) == <<"{">> \o inner \o <<"}">>

\* n groups nested in one another, the innermost being {posargs:1}
RECURSIVE Nest(_)
Nest(n) ==
    IF n = 0 THEN << >>
    ELSE Group(<<"posargs", ":", ToString(n)>> \o Nest(n - 1))

BraceValue == Group(<<"env", ":", "J", ":", "z">>)

Inners ==
    { <<"env", ":", "USER">>,
      <<"env", ":", "USER", ":", "z">>,
      <<"env">>,
      <<"env", ":", "USER", ":", "z", ":", "w">>,
      <<"posargs">>,
      <<"posargs", ":", "z">>,
      <<"[", "sec", "]", "key">>,
      <<"foo">>,
      <<" ", "bar", " ">>,
      <<"toxinidir">>,
      << >> }

Items == {Group(i) : i \in Inners} \cup {<<"x">>}

RECURSIVE ConcatsOf(_)
ConcatsOf(n) ==
    IF n = 0 THEN {<< >>}
    ELSE LET P == ConcatsOf(n - 1) IN P \cup {p \o i : p \in P, i \in Items}

\* the example of replace_braces' docstring
DocExample ==
    <<"echo", " ">>
    \o Group(<<"posargs", ":">> \o Group(<<"env", ":", "USER", ":">>)
             \o <<" ", "passed", " ", "no", " ", "posargs">>)

ReplaceInputs ==
    ConcatsOf(MaxItems)
    \cup {Nest(n) : n \in 0..MaxNest}
    \cup { DocExample,
           Group(<<"posargs", ":">> \o Group(<<"foo">>)),
           Group(<<"options">>),
           Group(<<"name">>) }

Environs ==
    { << >>,
      (<<"USER">> :> <<"andy">>),
      (<<"USER">> :> BraceValue) }

Optionses ==
    { << >>,
      << <<"u">>, <<"v">> >>,
      << BraceValue >> }

Configs ==
    { << >>,
      (<< <<"sec">>, <<"key">> >> :> Group(<<"[", "sec", "]", "key">>)),
      (<< <<"sec">>, <<"key">> >> :>
          <<"py", "3", "4", ":", " ", "doc", "\n",
            "py", "2", "6", ":", " ", "other">>) }

Envs ==
    { [name |-> <<"py", "3", "4", "-", "foo">>,
       attrs |-> (<<"toxinidir">> :> <<"/tmp">>),
       config |-> c, options |-> o] : c \in Configs, o \in Optionses }

InitReplace ==
    /\ fn = "replace_braces"
    /\ arg \in ReplaceInputs
    /\ s = arg
    /\ env \in Envs
    /\ environ \in Environs
    /\ arguments = << >>
    /\ passes = 0
    /\ pc = "loop"
    /\ result = << >>
    /\ error = NoError

NextReplace == Pass \/ Return

SpecReplace == InitReplace /\ [][NextReplace]_vars

----------------------------------------------------------------------------
(* The calls of expand_curlys, bash_expand and parse_envlist.              *)

CallExpandCurlys ==
    /\ fn = "expand_curlys"
    /\ pc = "call"
    /\ result' = expand_curlys(s)
    /\ pc' = "returned"
    /\ UNCHANGED <<fn, s, env, environ, arguments, passes, arg, error>>

CallBashExpand ==
    /\ fn = "bash_expand"
    /\ pc = "call"
    /\ result' = bash_expand(s)
    /\ pc' = "returned"
    /\ UNCHANGED <<fn, s, env, environ, arguments, passes, arg, error>>

CallParseEnvlist ==
    /\ fn = "parse_envlist"
    /\ pc = "call"
    /\ result' = parse_envlist(s)
    /\ pc' = "returned"
    /\ UNCHANGED <<fn, s, env, environ, arguments, passes, arg, error>>

MaxExpandLen == 5
MaxPieces == 3

SeqsUpTo(A, n) == UNION {[1..k -> A] : k \in 0..n}

ExpandAlphabet == {"{", "}", ",", " ", "u", "v"}

Pieces ==
    { Group(<<"u", ",", "v">>),
      Group(<<"u", " ", ",", " ", "v", ",", "w">>),
      Group(<< >>),
      <<"x">> }

RECURSIVE PiecesOf(_)
PiecesOf(n) ==
    IF n = 0 THEN {<< >>}
    ELSE LET P == PiecesOf(n - 1) IN P \cup {p \o i : p \in P, i \in Pieces}

\* "py{26,27}" and "{py26,py27}-django{15,16}, py32" of the docstrings
DocCurly == <<"py">> \o Group(<<"2", "6", ",", "2", "7">>)

DocEnvlist ==
    Group(<<"py", "2", "6", ",", "py", "2", "7">>) \o <<"-", "django">>
    \o Group(<<"1", "5", ",", "1", "6">>) \o <<",", " ", "py", "3", "2">>

ExpandInputs ==
    SeqsUpTo(ExpandAlphabet, MaxExpandLen)
    \cup PiecesOf(MaxPieces)
    \cup { DocCurly, DocEnvlist,
           Group(<<"u", ",">> \o Group(<<"v", ",", "w">>) \o <<",", "x">>),
           <<"u", ",">> \o Group(<<"v", ",", "w">>) \o <<" ", ",", ",", "x">> }

NoEnv == [name |-> << >>, attrs |-> << >>, config |-> << >>, options |-> << >>]

InitExpand ==
    /\ fn \in {"expand_curlys", "bash_expand", "parse_envlist"}
    /\ arg \in ExpandInputs
    /\ s = arg
    /\ env = NoEnv
    /\ environ = << >>
    /\ arguments = << >>
    /\ passes = 0
    /\ pc = "call"
    /\ result = << >>
    /\ error = NoError

NextExpand == CallExpandCurlys \/ CallBashExpand \/ CallParseEnvlist

SpecExpand == InitExpand /\ [][NextExpand]_vars

----------------------------------------------------------------------------
(* The calls of expand_factor_conditions.                                  *)

CallExpandFactorConditions ==
    /\ fn = "expand_factor_conditions"
    /\ pc = "call"
    /\ result' = expand_factor_conditions(s, env)
    /\ pc' = "returned"
    /\ UNCHANGED <<fn, s, env, environ, arguments, passes, arg, error>>

MaxSegmentLen == 4

SegmentAlphabet == {":", " ", "env", "foo", "x"}

Py(a, b) == <<"py", a, b>>

\* "py{33,34}: docformatter" and "env:FOO: bar" 
DocFactor ==
    <<"py">> \o Group(<<"3", "3", ",", "3", "4">>) \o <<":", " ", "doc">>

EnvLike == <<"env", ":", "foo", ":", " ", "bar">>

Lefts ==
    { Py("3", "4"), Py("2", "6"), <<"env">>, <<"foo">>, << >>,
      <<"py">> \o Group(<<"3", "3", ",", "3", "4">>),
      Group(Py("2", "6") \o <<",">> \o Py("3", "4")),
      Py("2", "6") \o <<",", " ", "foo">> }

Colons == { <<":">>, <<":", " ">>, <<" ", ":", " ">> }

Rights == { <<"doc">>, << >>, <<"doc", " ", "x">> }

SegmentInputs ==
    SeqsUpTo(SegmentAlphabet, MaxSegmentLen)
    \cup {l \o c \o r : l \in Lefts, c \in Colons, r \in Rights}
    \cup {DocFactor, EnvLike}

Names ==
    { Py("3", "4") \o <<"-", "foo">>,
      Py("2", "6") \o <<"-", "foo">>,
      <<"foo">>, << >>, <<"x", "-", "env">> }

InitFactor ==
    /\ fn = "expand_factor_conditions"
    /\ arg \in SegmentInputs
    /\ s = arg
    /\ env \in {[NoEnv EXCEPT !.name = n] : n \in Names}
    /\ environ = << >>
    /\ arguments = << >>
    /\ passes = 0
    /\ pc = "call"
    /\ result = << >>
    /\ error = NoError

NextFactor == CallExpandFactorConditions

SpecFactor == InitFactor /\ [][NextFactor]_vars

----------------------------------------------------------------------------
(* The calls of positional_args (consumed by list()).                      *)

CallPositionalArgs ==
    /\ fn = "positional_args"
    /\ pc = "call"
    /\ result' = positional_args(arguments)
    /\ pc' = "returned"
    /\ UNCHANGED <<fn, s, env, environ, arguments, passes, arg, error>>

MaxTokens == 3

Tokens == { <<"-", "-">>, <<"-", "w">>, <<"-">>, <<"u">>, <<"v">>, << >> }

InitPosargs ==
    /\ fn = "positional_args"
    /\ arguments \in SeqsUpTo(Tokens, MaxTokens)
    /\ arg = << >>
    /\ s = << >>
    /\ env = NoEnv
    /\ environ = << >>
    /\ passes = 0
    /\ pc = "call"
    /\ result = << >>
    /\ error = NoError

NextPosargs == CallPositionalArgs

SpecPosargs == InitPosargs /\ [][NextPosargs]_vars

----------------------------------------------------------------------------
(* Properties of positional_args.                                          *)

NumOf(str, c) == Cardinality({i \in 1..Len(str) : str[i] = c})

IsFlag(a) == Len(a) >= 1 /\ a[1] = "-"

\* index of the first token that starts with "-", else one past the end
FirstFlag(args) ==
    IF \E i \in 1..Len(args) : IsFlag(args[i])
    THEN CHOOSE i \in 1..Len(args) :
            IsFlag(args[i]) /\ \A j \in 1..(i - 1) : ~IsFlag(args[j])
    ELSE Len(args) + 1

----------------------------------------------------------------------------
(* Properties of expand_factor_conditions.                                 *)

ColonAt(str) == CHOOSE i \in 1..Len(str) : str[i] = ":"

LeftOfColon(str) == rstrip(Slice(str, 1, ColonAt(str) - 1))

RightOfColon(str) == lstrip(Slice(str, ColonAt(str) + 1, Len(str)))

NameLabels(e_) == Range(split(e_.name, "-"))

\* C8: a segment with exactly one colon whose left part is not the word env
\* evaluates to its right part when a brace-expanded label of the left part
\* is a label of the environment's name, and to the empty string when none
\* is; every other segment is returned unchanged.
C8_FactorConditions ==
    (fn = "expand_factor_conditions" /\ pc = "returned") =>
        /\ (NumOf(arg, ":") = 1 /\ LeftOfColon(arg) # <<"env">>) =>
              result = IF Range(bash_expand(LeftOfColon(arg)))
                            \cap NameLabels(env) # {}
                       THEN RightOfColon(arg)
                       ELSE << >>
        /\ (NumOf(arg, ":") # 1 \/ LeftOfColon(arg) = <<"env">>) =>
              result = arg
        /\ (arg = DocFactor /\ env.name = Py("3", "4") \o <<"-", "foo">>)
              => result = <<"doc">>
        /\ (arg = DocFactor /\ env.name = Py("2", "6") \o <<"-", "foo">>)
              => result = << >>
        /\ arg = EnvLike => result = EnvLike

C8_Witness ==
    /\ fn = "expand_factor_conditions"
    /\ pc = "returned"
    /\ arg = DocFactor
    /\ env.name = Py("3", "4") \o <<"-", "foo">>
    /\ result = <<"doc">>

----------------------------------------------------------------------------
(* Properties of expand_curlys.                                            *)

NumAlts(g) == NumOf(g.group, ",") + 1

Alt(g, j) == re_split(Slice(g.group, 2, Len(g.group) - 1), ",")[j]

\* product of the numbers of alternatives of the groups after the i-th
RECURSIVE Weight(_, _)
Weight(gs, i) ==
    IF i >= Len(gs) THEN 1 ELSE NumAlts(gs[i + 1]) * Weight(gs, i + 1)

\* the alternative of the i-th group in the idx-th entry, when the rightmost
\* group varies fastest
Choice(gs, i, idx) == (((idx - 1) \div Weight(gs, i)) % NumAlts(gs[i])) + 1

\* str from the end of group i-1 on, with groups i, i+1, ... replaced
RECURSIVE Substituted(_, _, _, _)
Substituted(str, gs, idx, i) ==
    LET from == IF i = 1 THEN 1 ELSE gs[i - 1].end + 1 IN
    IF i > Len(gs) THEN Slice(str, from, Len(str))
    ELSE Slice(str, from, gs[i].start - 1)
         \o Alt(gs[i], Choice(gs, i, idx))
         \o Substituted(str, gs, idx, i + 1)

\* C6: expand_curlys(s) is [s] when s has no brace group; otherwise it has
\* one entry per combination of alternatives, each being s with every group
\* replaced by one alternative, ordered with the rightmost group varying
\* fastest; an empty group has the one alternative "".
C6_ExpandCurlys ==
    (fn = "expand_curlys" /\ pc = "returned") =>
        LET gs == finditer_curly(arg, 1) IN
        /\ gs = << >> => result = <<arg>>
        /\ Len(result) = Weight(gs, 0)
        /\ \A idx \in 1..Len(result) :
              result[idx] = Substituted(arg, gs, idx, 1)
        /\ arg = DocCurly => result = << Py("2", "6"), Py("2", "7") >>
        /\ arg = Group(<< >>) => result = << << >> >>

C6_Witness ==
    /\ fn = "expand_curlys"
    /\ pc = "returned"
    /\ arg = Group(<<"u", ",", "v">>) \o <<"x">>
             \o Group(<<"u", " ", ",", " ", "v", ",", "w">>)
    /\ result = << <<"u", "x", "u">>, <<"u", "x", "v">>, <<"u", "x", "w">>,
                   <<"v", "x", "u">>, <<"v", "x", "v">>, <<"v", "x", "w">> >>

----------------------------------------------------------------------------
(* Properties of bash_expand and parse_envlist.                            *)

\* number of brace groups open just before index i
Depth(str, i) ==
    NumOf(Slice(str, 1, i - 1), "{") - NumOf(Slice(str, 1, i - 1), "}")

Balanced(str) ==
    /\ Depth(str, Len(str) + 1) = 0
    /\ \A i \in 1..Len(str) : Depth(str, i + 1) >= 0

MaxDepth(str) ==
    CHOOSE d \in 0..Len(str) :
        /\ \A i \in 1..(Len(str) + 1) : Depth(str, i) <= d
        /\ \E i \in 1..(Len(str) + 1) : Depth(str, i) = d

\* the commas that are outside every brace group
TopCommas(str) == {i \in 1..Len(str) : str[i] = "," /\ Depth(str, i) = 0}

NonEmpty(seg) == IF seg = << >> THEN << >> ELSE <<seg>>

\* the non-empty segments between the top-level commas at or after from,
\* without the whitespace next to those commas
RECURSIVE SegmentsFrom(_, _)
SegmentsFrom(str, from) ==
    LET later == {i \in TopCommas(str) : i >= from}
        left(x) == IF from = 1 THEN x ELSE lstrip(x)
    IN  IF later = {}
        THEN NonEmpty(left(Slice(str, from, Len(str))))
        ELSE LET c == CHOOSE i \in later : \A j \in later : i <= j IN
             NonEmpty(left(rstrip(Slice(str, from, c - 1))))
             \o SegmentsFrom(str, c + 1)

TopLevelExpansion(str) ==
    LET segs == SegmentsFrom(str, 1) IN
    sum([k \in 1..Len(segs) |-> expand_curlys(segs[k])])

DocEnvlistExpansion ==
    << Py("2", "6") \o <<"-", "django", "1", "5">>,
       Py("2", "6") \o <<"-", "django", "1", "6">>,
       Py("2", "7") \o <<"-", "django", "1", "5">>,
       Py("2", "7") \o <<"-", "django", "1", "6">>,
       Py("3", "2") >>

\* C7: bash_expand and parse_envlist split their argument at the commas
\* that are outside every brace group, whatever the nesting depth, expand
\* each segment on its own and concatenate the expansions in segment order.
C7_TopLevelSplit ==
    (fn \in {"bash_expand", "parse_envlist"} /\ pc = "returned"
        /\ Balanced(arg)) =>
        /\ result = TopLevelExpansion(arg)
        /\ arg = DocEnvlist => result = DocEnvlistExpansion

\* The same for arguments whose brace groups are not nested.
C7_TopLevelSplitFlat ==
    (fn \in {"bash_expand", "parse_envlist"} /\ pc = "returned"
        /\ Balanced(arg) /\ MaxDepth(arg) <= 1) =>
        /\ result = TopLevelExpansion(arg)
        /\ arg = DocEnvlist => result = DocEnvlistExpansion

----------------------------------------------------------------------------
(* Properties of replace_braces.                                           *)

Terminated == pc \in {"returned", "raised"}

CyclicOption == Group(<<"[", "sec", "]", "key">>)

\* the option sec/key is defined as a reference to itself
CyclicCall ==
    /\ fn = "replace_braces"
    /\ arg = CyclicOption
    /\ env.config = (<< <<"sec">>, <<"key">> >> :> CyclicOption)

\* C1 as stated: every call of replace_braces ends after exactly DEPTH
\* scan passes.
C1_EveryCallEndsAfterDepthPasses ==
    (fn = "replace_braces" /\ Terminated) => passes = DEPTH

\* C1: every call of replace_braces ends: a call that has not ended is in
\* the loop with at most DEPTH passes done, where the next pass or the return
\* applies, and every step completes one more pass or ends the call, which
\* returns a string after exactly DEPTH scan passes or raises during one of
\* the first DEPTH passes; no pass beyond the DEPTH-th is executed; a call on
\* a cyclic option returns.
C1_TerminatesWithinDepthPasses ==
    /\ [](passes <= DEPTH)
    /\ [](pc = "returned" => passes = DEPTH /\ error = NoError)
    /\ [](pc = "raised" => passes < DEPTH /\ result = << >>)
    /\ []((fn = "replace_braces" /\ ~Terminated) => pc = "loop")
    /\ [][passes' = passes + 1 \/ Terminated']_vars
    /\ []((CyclicCall /\ Terminated) => (pc = "returned" /\ result = arg))

C1_Witness ==
    /\ CyclicCall
    /\ pc = "returned"
    /\ passes = DEPTH
    /\ result = CyclicOption

NoBraces(str) == NumOf(str, "{") = 0 /\ NumOf(str, "}") = 0

StartsWith(str, prefix) ==
    Len(str) >= Len(prefix) /\ SubSeq(str, 1, Len(prefix)) = prefix

Contains(str, sub) ==
    \E i \in 1..(Len(str) - Len(sub) + 1) :
        SubSeq(str, i, i + Len(sub) - 1) = sub

\* no positional argument contains a brace
BraceFreeArgs(e_) ==
    \A i \in 1..Len(e_.options) : NoBraces(e_.options[i])

\* C2 as stated: five nested groups are fully resolved; of six nested groups
\* the innermost one is left unexpanded, without an error.
C2_InnermostLeftUnexpanded ==
    (fn = "replace_braces" /\ BraceFreeArgs(env)) =>
        /\ arg \in {Nest(5), Nest(6)} => pc # "raised"
        /\ (arg = Nest(5) /\ pc = "returned") => NoBraces(result)
        /\ (arg = Nest(6) /\ pc = "returned") => Contains(result, Nest(1))

\* C2: when no substituted value contains a brace, five nested groups are
\* fully resolved; of six nested groups the five inner ones are resolved and
\* the outermost one is left unexpanded, without an error.
C2_OutermostLeftUnexpanded ==
    (fn = "replace_braces" /\ BraceFreeArgs(env)) =>
        /\ arg \in {Nest(5), Nest(6)} => pc # "raised"
        /\ (arg = Nest(5) /\ pc = "returned") => NoBraces(result)
        /\ (arg = Nest(6) /\ pc = "returned") =>
              /\ StartsWith(result, <<"{", "posargs", ":", "6">>)
              /\ result[Len(result)] = "}"
              /\ NumOf(result, "{") = 1
              /\ NumOf(result, "}") = 1
              /\ ~Contains(result, Nest(1))

C2_Witness ==
    /\ fn = "replace_braces"
    /\ arg = Nest(6)
    /\ env.options = << >>
    /\ pc = "returned"
    /\ result = Group(<<"posargs", ":", "6", "5", "4", "3", "2", "1">>)

\* the trimmed inner texts of the brace groups of str, left to right
GroupTexts(str) ==
    LET gs == finditer_curly(str, 1) IN
    [i \in 1..Len(gs) |-> strip(Slice(gs[i].group, 2, Len(gs[i].group) - 1))]

IsAttribute(t, e_) ==
    t \in DOMAIN e_.attrs \cup {<<"name">>, <<"options">>, <<"config">>}

\* env:KEY or env:KEY:DEFAULT
EnvShape(t) == StartsWith(t, <<"env", ":">>) /\ NumOf(t, ":") \in {1, 2}

\* [SECTION]OPTION
ConfigShape(t) ==
    Len(t) >= 2 /\ t[1] = "[" /\ \E i \in 2..Len(t) : t[i] = "]"

\* posargs or posargs:DEFAULT
PosargsShape(t) ==
    \/ t = <<"posargs">>
    \/ StartsWith(t, <<"posargs">>) /\ StartsWith(lstrip(Tail(t)), <<":">>)

Unresolvable(t, e_) ==
    /\ ~IsAttribute(t, e_)
    /\ ~EnvShape(t)
    /\ ~ConfigShape(t)
    /\ ~PosargsShape(t)

HasUnresolvable(str, e_) ==
    \E i \in 1..Len(GroupTexts(str)) : Unresolvable(GroupTexts(str)[i], e_)

\* index of the leftmost group of str that no strategy understands
LeftmostUnresolvable(str, e_) ==
    CHOOSE i \in 1..Len(GroupTexts(str)) :
        /\ Unresolvable(GroupTexts(str)[i], e_)
        /\ \A j \in 1..(i - 1) : ~Unresolvable(GroupTexts(str)[j], e_)

\* the scan of the text to the left of the i-th group of str succeeds
ReachesGroup(str, i, e_) ==
    re_sub(Slice(str, 1, finditer_curly(str, 1)[i].start - 1), 1, e_,
           << >>).kind = "ok"

Scanning == fn = "replace_braces" /\ pc = "loop" /\ passes < DEPTH

\* C3: a pass over a string with a group that is no attribute and has none
\* of the supported shapes raises and returns nothing; when the scan reaches
\* the leftmost such group the error is NotImplementedError with the trimmed
\* text of that group; the malformed shapes env and env:K:d:e are such
\* groups.
C3_UnsupportedPlaceholder ==
    /\ []((pc = "raised" /\ error.kind = "NotImplementedError") =>
            /\ result = << >>
            /\ HasUnresolvable(s, env)
            /\ error.val = GroupTexts(s)[LeftmostUnresolvable(s, env)])
    /\ [][(Scanning /\ HasUnresolvable(s, env)) =>
            /\ pc' = "raised"
            /\ result' = << >>
            /\ ReachesGroup(s, LeftmostUnresolvable(s, env), env) =>
                  error' = Raise("NotImplementedError",
                                 GroupTexts(s)[LeftmostUnresolvable(s, env)])
         ]_vars
    /\ [](Unresolvable(<<"env">>, env)
          /\ Unresolvable(<<"env", ":", "USER", ":", "z", ":", "w">>, env))

C3_Witness ==
    /\ fn = "replace_braces"
    /\ arg = Group(<<" ", "bar", " ">>) \o Group(<<"foo">>)
    /\ pc = "raised"
    /\ error = Raise("NotImplementedError", <<"bar">>)
    /\ result = << >>

\* C4: {posargs} and {posargs:DEFAULT} are replaced by the positional
\* arguments joined by single spaces when there is one, and otherwise by
\* DEFAULT, which is the empty string for {posargs}; no error is raised.
C4_PosargsDefault ==
    [][(Scanning /\ passes = 0
          /\ arg \in {Group(<<"posargs">>), Group(<<"posargs", ":", "z">>)})
       => LET joined  == join(positional_args(env.options), <<" ">>)
              default == IF arg = Group(<<"posargs">>) THEN << >>
                         ELSE <<"z">>
          IN  /\ pc' = "loop"
              /\ s' = IF positional_args(env.options) # << >>
                      THEN joined ELSE default
      ]_vars

\* the leftmost group of s has the inner text t
FirstGroupIs(t) ==
    /\ finditer_curly(s, 1) # << >>
    /\ GroupTexts(s)[1] = t

\* s with its only group replaced by v
OnlyGroupReplaced(v) ==
    LET g == finditer_curly(s, 1)[1] IN
    Slice(s, 1, g.start - 1) \o v \o Slice(s, g.end + 1, Len(s))

\* C5: scanning {env:KEY} with KEY unset raises KeyError for KEY and
\* returns nothing; {env:KEY:DEFAULT} does not fail and is replaced by the
\* value of KEY when KEY is set and by DEFAULT when it is not.
C5_EnvVar ==
    [][Scanning =>
        /\ (FirstGroupIs(<<"env", ":", "USER">>)
              /\ <<"USER">> \notin DOMAIN environ) =>
              /\ pc' = "raised"
              /\ error' = Raise("KeyError", <<"USER">>)
              /\ result' = << >>
        /\ FirstGroupIs(<<"env", ":", "USER", ":", "z">>) =>
              LET v == IF <<"USER">> \in DOMAIN environ
                       THEN environ[<<"USER">>] ELSE <<"z">>
                  g == finditer_curly(s, 1)[1]
              IN  /\ error'.kind \notin {"KeyError", "NotImplementedError"}
                        \/ Len(finditer_curly(s, 1)) > 1
                  /\ pc' = "loop" =>
                        StartsWith(s', Slice(s, 1, g.start - 1) \o v)
                  /\ Len(finditer_curly(s, 1)) = 1 =>
                        /\ pc' = "loop"
                        /\ s' = OnlyGroupReplaced(v)
     ]_vars

C5_Witness ==
    /\ fn = "replace_braces"
    /\ arg = Group(<<"env", ":", "USER">>) \o Group(<<"foo">>)
    /\ <<"USER">> \notin DOMAIN environ
    /\ pc = "raised"
    /\ error = Raise("KeyError", <<"USER">>)

\* the substitutes of the k innermost groups of Nest(n), k >= 0
RECURSIVE Resolved(_)
Resolved(k) == IF k = 0 THEN << >> ELSE <<ToString(k)>> \o Resolved(k - 1)

\* Nest(n) after its k innermost groups are resolved, k <= n
RECURSIVE Outer(_, _)
Outer(n, k) ==
    IF n = k THEN Resolved(k)
    ELSE Group(<<"posargs", ":", ToString(n)>> \o Outer(n - 1, k))

AfterFirstPass ==
    <<"echo", " ">>
    \o Group(<<"posargs", ":", "andy", " ", "passed", " ", "no", " ",
               "posargs">>)

Echoed == <<"echo", " ", "andy", " ", "passed", " ", "no", " ", "posargs">>

\* a call whose first substitute is a value that is itself a brace group
BraceValueCall ==
    \/ arg = Group(<<"posargs", ":", "z">>) /\ env.options = <<BraceValue>>
    \/ /\ arg \in {Group(<<"env", ":", "USER">>),
                   Group(<<"env", ":", "USER", ":", "z">>)}
       /\ environ = (<<"USER">> :> BraceValue)

\* C10: a pass replaces the groups that contain no brace and the next pass
\* scans its output: after k passes over n nested groups the k innermost are
\* resolved, each substitute being part of the inner text of the enclosing
\* group; the docstring example resolves in two passes; a substitute that
\* is itself a brace group is resolved by the following pass.
C10_PassOrdering ==
    (fn = "replace_braces" /\ pc # "raised") =>
        /\ \A n \in 0..MaxNest :
              (arg = Nest(n) /\ env.options = << >>) =>
                  s = Outer(n, IF passes <= n THEN passes ELSE n)
        /\ (arg = DocExample /\ env.options = << >>
              /\ environ = (<<"USER">> :> <<"andy">>)) =>
              /\ passes = 1 => s = AfterFirstPass
              /\ passes >= 2 => s = Echoed
              /\ pc = "returned" => result = Echoed
        /\ BraceValueCall =>
              /\ passes = 1 => s = BraceValue
              /\ passes >= 2 => s = <<"z">>

C10_Witness ==
    /\ fn = "replace_braces"
    /\ arg = DocExample
    /\ env.options = << >>
    /\ environ = (<<"USER">> :> <<"andy">>)
    /\ pc = "returned"
    /\ result = Echoed

====
